---- MODULE Spec2Model ----
(***************************************************************************)
(* Model of orchestrator/oracle/oracle.go: the price oracle that polls a   *)
(* set of exchange providers, filters their candles and tickers by         *)
(* deviation from the cross-provider mean and publishes one price per base *)
(* symbol.                                                                 *)
(*                                                                         *)
(* sdk.Dec values are integers counting 1/Precision units (the library     *)
(* keeps 18 decimals; the model keeps fewer, and truncates where the       *)
(* library rounds).                                                        *)
(***************************************************************************)
EXTENDS Integers, Sequences, FiniteSets, TLC

\* ------------------------------------------------------------------ bounds
MaxPrice == 2        \* tickers and candles quote 1..MaxPrice (whole units)
MaxArgs == 2         \* longest argument list of SubscribeSymbols / GetPrices
Precision == 1000    \* units per 1.0 of an sdk.Dec in the model
MaxThreshold == 2    \* thresholds 0..MaxThreshold tried on the deviation filters

\* --------------------------------------------------------------- constants
tickerTimeout == 1000
availablePairsReload == 86400000
deviationThreshold == 2

Quotes == {"USD", "USDT", "UST"}

\* strings.ToUpper on the base symbols the model uses.
ToUpper(s) == IF s = "atom" THEN "ATOM" ELSE s

\* ------------------------------------------------------------------- maps
\* A Go map is a function; a missing key is a value outside its DOMAIN.
EmptyMap == [k \in {} |-> 0]

Put(m, k, v) == [x \in (DOMAIN m) \cup {k} |-> IF x = k THEN v ELSE m[x]]

\* All maps from a subset of keys to vals.
PartialMaps(keys, vals) == UNION {[d -> vals] : d \in SUBSET keys}

RECURSIVE SumOver(_, _)
SumOver(S, f) ==
    IF S = {} THEN 0
    ELSE LET x == CHOOSE y \in S : TRUE IN f[x] + SumOver(S \ {x}, f)

\* ------------------------------------------------------------- sdk.Dec
Dec(n) == n * Precision

DecMul(a, b) == (a * b) \div Precision

DecQuo(a, b) == (a * Precision) \div b

Abs(x) == IF x < 0 THEN -x ELSE x

RECURSIVE SqrtBetween(_, _, _)
SqrtBetween(n, lo, hi) ==
    IF lo >= hi THEN lo
    ELSE LET mid == (lo + hi + 1) \div 2 IN
         IF mid * mid <= n THEN SqrtBetween(n, mid, hi)
         ELSE SqrtBetween(n, lo, mid - 1)

\* Dec.ApproxSqrt: the square root of a Dec, as a Dec.
ApproxSqrt(d) == SqrtBetween(d * Precision, 0, 46340)

\* ------------------------------- the statistics and weighting collaborator
\* provider => base: the bases any provider of the aggregate reports.
BasesOf(agg) == UNION {DOMAIN agg[p] : p \in DOMAIN agg}

ProvidersWith(agg, base) == {p \in DOMAIN agg : base \in DOMAIN agg[p]}

\* vwap: weighted price sum over volume sum, for the bases with volume.
Vwap(weightedPrices, volumeSum) ==
    LET bases == {b \in DOMAIN weightedPrices : volumeSum[b] # 0} IN
    [b \in bases |-> DecQuo(weightedPrices[b], volumeSum[b])]

\* ComputeVWAP over provider => base => TickerPrice [Price, Volume].
ComputeVWAP(prices) ==
    LET bases == BasesOf(prices)
        weighted == [b \in bases |->
            SumOver(ProvidersWith(prices, b),
                    [p \in ProvidersWith(prices, b) |->
                        DecMul(prices[p][b].Price, prices[p][b].Volume)])]
        volume == [b \in bases |->
            SumOver(ProvidersWith(prices, b),
                    [p \in ProvidersWith(prices, b) |-> prices[p][b].Volume])]
    IN Vwap(weighted, volume)

\* A candle is [Price, Volume, TimeWeight]: TimeWeight is the weight its
\* time stamp earns in the window, 0 when it lies outside the window.
CandleVolume(cp) ==
    SumOver(DOMAIN cp, [i \in DOMAIN cp |-> DecMul(cp[i].Volume, cp[i].TimeWeight)])

CandleWeighted(cp) ==
    SumOver(DOMAIN cp,
            [i \in DOMAIN cp |->
                DecMul(cp[i].Price, DecMul(cp[i].Volume, cp[i].TimeWeight))])

\* ComputeTVWAP over provider => base => sequence of candles.
ComputeTVWAP(candles) ==
    LET bases == {b \in BasesOf(candles) :
                    \E p \in ProvidersWith(candles, b) : Len(candles[p][b]) > 0}
        with(b) == {p \in ProvidersWith(candles, b) : Len(candles[p][b]) > 0}
        weighted == [b \in bases |->
            SumOver(with(b), [p \in with(b) |-> CandleWeighted(candles[p][b])])]
        volume == [b \in bases |->
            SumOver(with(b), [p \in with(b) |-> CandleVolume(candles[p][b])])]
    IN Vwap(weighted, volume)

\* StandardDeviation over provider => base => Dec: deviations and means of
\* the bases that at least three providers report.
StandardDeviation(values) ==
    LET bases == {b \in BasesOf(values) : Cardinality(ProvidersWith(values, b)) >= 3}
        n(b) == Cardinality(ProvidersWith(values, b))
        mean(b) == SumOver(ProvidersWith(values, b),
                           [p \in ProvidersWith(values, b) |-> values[p][b]]) \div n(b)
        variance(b) ==
            SumOver(ProvidersWith(values, b),
                    [p \in ProvidersWith(values, b) |->
                        DecMul(values[p][b] - mean(b), values[p][b] - mean(b))]) \div n(b)
    IN [deviations |-> [b \in bases |-> ApproxSqrt(variance(b))],
        means |-> [b \in bases |-> mean(b)]]

\* ------------------------------------------------------ deviation filters
\* WithinDeviation with GT and LT for GTE and LTE.
WithinDeviationStrict(price, base, stats, threshold) ==
    \/ base \notin DOMAIN stats.deviations
    \/ /\ price > stats.means[base] - DecMul(stats.deviations[base], threshold)
       /\ price < stats.means[base] + DecMul(stats.deviations[base], threshold)

\* WithinDeviation without the Mul(deviationThreshold): one deviation.
WithinOneDeviation(price, base, stats, threshold) ==
    \/ base \notin DOMAIN stats.deviations
    \/ /\ price >= stats.means[base] - stats.deviations[base]
       /\ price <= stats.means[base] + stats.deviations[base]

\* The test of lines 373-375 and 421-423: no deviation for the base, or the
\* price within threshold deviations of the mean.
WithinDeviation(price, base, stats, threshold) ==
    \/ base \notin DOMAIN stats.deviations
    \/ /\ price >= stats.means[base] - DecMul(stats.deviations[base], threshold)
       /\ price <= stats.means[base] + DecMul(stats.deviations[base], threshold)

\* The filtered aggregate holding the samples <<provider, base>> of keep: a
\* provider's slot exists only when one of its bases is kept.
KeepWhere(agg, keep) ==
    [p \in {s[1] : s \in keep} |->
        [b \in {s[2] : s \in {t \in keep : t[1] = p}} |-> agg[p][b]]]

\* tvwaps of filterCandleDeviations: each provider's own TVWAP per base.
ProviderTvwaps(candles) ==
    LET own(p) == ComputeTVWAP([q \in {p} |-> candles[p]])
        have == {p \in DOMAIN candles : DOMAIN own(p) # {}}
    IN [p \in have |-> own(p)]

FilterCandleDeviationsT(candles, threshold) ==
    LET tvwaps == ProviderTvwaps(candles)
        stats == StandardDeviation(tvwaps)
        keep == UNION {{<<p, b>> : b \in {x \in DOMAIN tvwaps[p] :
                            WithinDeviation(tvwaps[p][x], x, stats, threshold)}} :
                       p \in DOMAIN tvwaps}
    IN KeepWhere(candles, keep)

TickerPriceMap(prices) ==
    [p \in DOMAIN prices |-> [b \in DOMAIN prices[p] |-> prices[p][b].Price]]

FilterTickerDeviationsT(prices, threshold) ==
    LET stats == StandardDeviation(TickerPriceMap(prices))
        keep == UNION {{<<p, b>> : b \in {x \in DOMAIN prices[p] :
                            WithinDeviation(prices[p][x].Price, x, stats, threshold)}} :
                       p \in DOMAIN prices}
    IN KeepWhere(prices, keep)

filterCandleDeviations(candles) ==
    FilterCandleDeviationsT(candles, Dec(deviationThreshold))

filterTickerDeviations(prices) ==
    FilterTickerDeviationsT(prices, Dec(deviationThreshold))

\* ------------------------------------------------------------------ state
VARIABLES
    providers,              \* o.providers: name => [availablePairs, subscribedPairs]
    prices,                 \* o.prices: base symbol => Dec
    subscribedBaseSymbols,  \* o.subscribedBaseSymbols
    mtx,                    \* o.mtx: [writer, readers]
    closed,                 \* o.closer: Close() has been called
    ctxDone,                \* the context given to New is cancelled
    loop,                   \* the goroutine of start(): where it is, and a tick's locals
    lastTick,               \* what setPrices did, from its return to the next tick
    sub,                    \* the caller of SubscribeSymbols
    rd,                     \* the caller of GetPrices / GetPrice
    stopPc,                 \* the caller of Stop
    probe                   \* a deviation filter applied on its own: [kind, threshold, in, out, done]

vars == <<providers, prices, subscribedBaseSymbols, mtx, closed, ctxDone,
          loop, lastTick, sub, rd, stopPc, probe>>

\* ----------------------------------------------------------------- inputs
ProviderNames == {"binance", "kraken"}

\* Base symbols as callers of SubscribeSymbols write them: no provider
\* lists a pair of ETH.
BaseSymbols == {"atom", "ETH"}

\* Base symbols asked of GetPrices / GetPrice.
ReadSymbols == {"ATOM", "ETH"}

Symbol(cp) == <<cp.Base, cp.Quote>>

\* What a provider's GetAvailablePairs may list.
AtomPairs == {<<"ATOM", "USD">>, <<"ATOM", "USDT">>}

Listings == {{}, AtomPairs}

TickerOptions == {[Price |-> Dec(p), Volume |-> Dec(1)] : p \in 1..MaxPrice}

StaleCandle == [Price |-> Dec(1), Volume |-> Dec(1), TimeWeight |-> 0]

CandleOptions ==
    {<<StaleCandle>>}
    \cup {<<[Price |-> Dec(p), Volume |-> Dec(1), TimeWeight |-> Dec(1)]>> : p \in 1..MaxPrice}

ArgLists(S) == UNION {[1..n -> S] : n \in 1..MaxArgs}

Range(seq) == {seq[i] : i \in DOMAIN seq}

Perms(S) == {s \in [1..Cardinality(S) -> S] : Range(s) = S}

\* The calls setPrices makes that return an error.
FailPoints == {"filterCandleDeviations", "ComputeTVWAP", "filterTickerDeviations", "ComputeVWAP"}

\* ------------------------------------------------------------------- New
IdleLoop(pc) ==
    [pc |-> pc, subs |-> EmptyMap, pending |-> {}, failed |-> {},
     providerPrices |-> EmptyMap, providerCandles |-> EmptyMap, reloaded |-> FALSE]

IdleSub == [pc |-> "idle", args |-> <<>>, i |-> 0, err |-> FALSE, calls |-> {},
            pre |-> EmptyMap]

IdleRd == [pc |-> "idle", fn |-> "", args |-> <<>>, i |-> 0, acc |-> EmptyMap,
           ret |-> "none", errBase |-> ""]

NoProbe == [kind |-> "none", threshold |-> 0, in |-> EmptyMap, out |-> EmptyMap,
            done |-> FALSE]

NoTick == [ran |-> FALSE, err |-> FALSE, invoked |-> {}, waitErr |-> FALSE]

\* New up to line 81: the providers and the Oracle are built.
Init ==
    /\ providers = [p \in ProviderNames |->
                        [availablePairs |-> {}, subscribedPairs |-> EmptyMap]]
    /\ prices = EmptyMap
    /\ subscribedBaseSymbols = {}
    /\ mtx = [writer |-> "none", readers |-> 0]
    /\ closed = FALSE
    /\ ctxDone = FALSE
    /\ loop = IdleLoop("new")
    /\ lastTick = NoTick
    /\ sub = IdleSub
    /\ rd = IdleRd
    /\ stopPc = "idle"
    /\ probe = NoProbe

\* New has returned the oracle: its methods can be called.
Constructed == loop.pc # "new"

\* ---------------------------------------------------- loadAvailablePairs
\* What GetAvailablePairs returns: an error, or a listing.
ListingResults ==
    {[err |-> TRUE, pairs |-> {}]} \cup {[err |-> FALSE, pairs |-> l] : l \in Listings}

\* loadAvailablePairs without the continue of lines 209-214: a failed or
\* empty listing is assigned like any other.
loadAvailablePairsAssignsEmpty(provs, results) ==
    [p \in DOMAIN provs |-> [provs[p] EXCEPT !.availablePairs = results[p].pairs]]

\* Lines 205-217: a failed or empty listing leaves the provider as it is.
loadAvailablePairs(provs, results) ==
    [p \in DOMAIN provs |->
        IF results[p].err \/ results[p].pairs = {}
        THEN provs[p]
        ELSE [provs[p] EXCEPT !.availablePairs = results[p].pairs]]

\* The select of start() waits on two fresh timers and on ctx.Done(): the
\* timer with the shorter period fires first.
TickDue == tickerTimeout <= availablePairsReload

RefreshDue == availablePairsReload <= tickerTimeout

\* Line 82, in New, and line 199, in the loop.
LoadDue ==
    \/ loop.pc = "new"
    \/ loop.pc = "select" /\ ~ctxDone /\ RefreshDue

LoadAvailablePairs(listingResults) ==
    /\ LoadDue
    /\ \E results \in [DOMAIN providers -> listingResults] :
           providers' = loadAvailablePairs(providers, results)
    /\ loop' = [loop EXCEPT !.pc = "select", !.reloaded = (loop.pc = "select")]
    /\ UNCHANGED <<probe, prices, subscribedBaseSymbols, mtx, closed, ctxDone, lastTick,
                   sub, rd, stopPc>>

\* ------------------------------------------------------- SubscribeSymbols
\* Lines 452-464.
GetStablecoinsCurrencyPair(baseSymbol) ==
    {[Base |-> ToUpper(baseSymbol), Quote |-> q] : q \in Quotes}

\* PairsToSubscribe without the availablePairs test of lines 156-160.
PairsToSubscribeUnlisted(provider, currencyPairs) ==
    {cp \in currencyPairs : Symbol(cp) \notin DOMAIN provider.subscribedPairs}

\* Lines 145-163: the pairs not yet subscribed that the provider lists.
PairsToSubscribe(provider, currencyPairs) ==
    {cp \in currencyPairs :
        /\ Symbol(cp) \notin DOMAIN provider.subscribedPairs
        /\ Symbol(cp) \in provider.availablePairs}

\* Lines 172-174.
RecordSubscribed(provider, batch) ==
    [provider EXCEPT !.subscribedPairs =
        [sym \in (DOMAIN @) \cup {Symbol(cp) : cp \in batch} |->
            IF sym \in DOMAIN @ THEN @[sym]
            ELSE CHOOSE cp \in batch : Symbol(cp) = sym]]

\* subscribeProviders ranges over the provider map in any order; each
\* provider's SubscribeCurrencyPairs succeeds or fails. Every outcome:
\* [err, providers, calls], calls the adapter calls issued.
RECURSIVE SubscribeFrom(_, _, _, _)
SubscribeFrom(provs, remaining, currencyPairs, calls) ==
    IF remaining = {}
    THEN {[err |-> FALSE, providers |-> provs, calls |-> calls]}
    ELSE UNION {
        LET batch == PairsToSubscribe(provs[p], currencyPairs)
            called == calls \cup {<<p, batch>>}
        IN {[err |-> TRUE, providers |-> provs, calls |-> called]}
           \cup SubscribeFrom([provs EXCEPT ![p] = RecordSubscribed(@, batch)],
                              remaining \ {p}, currencyPairs, called)
        : p \in remaining}

\* subscribeProviders going on to the next provider, and returning nil,
\* when SubscribeCurrencyPairs fails: the providers of failing fail.
subscribeProvidersSkipsFailed(provs, currencyPairs) ==
    {[err |-> FALSE,
      providers |-> [p \in DOMAIN provs |->
                        IF p \in failing THEN provs[p]
                        ELSE RecordSubscribed(provs[p],
                                              PairsToSubscribe(provs[p], currencyPairs))],
      calls |-> {<<p, PairsToSubscribe(provs[p], currencyPairs)>> : p \in DOMAIN provs}] :
        failing \in SUBSET DOMAIN provs}

subscribeProviders(provs, currencyPairs) ==
    SubscribeFrom(provs, DOMAIN provs, currencyPairs, {})

\* AlreadySubscribed without the look-up of line 127.
NeverSubscribed(baseSymbol) == FALSE

\* Lines 127-131.
AlreadySubscribed(baseSymbol) == baseSymbol \in subscribedBaseSymbols

\* Lines 122-124: the call takes the write lock.
SubscribeCall(argLists) ==
    /\ Constructed
    /\ sub.pc = "idle"
    /\ mtx.writer = "none" /\ mtx.readers = 0
    /\ \E args \in argLists :
           sub' = [pc |-> "loop", args |-> args, i |-> 1, err |-> FALSE, calls |-> {},
                   pre |-> [providers |-> providers, bases |-> subscribedBaseSymbols]]
    /\ mtx' = [mtx EXCEPT !.writer = "sub"]
    /\ UNCHANGED <<probe, providers, prices, subscribedBaseSymbols, closed, ctxDone, loop,
                   lastTick, rd, stopPc>>

SubAdvance(s) ==
    IF s.i = Len(s.args) THEN [s EXCEPT !.pc = "ret"] ELSE [s EXCEPT !.i = @ + 1]

\* Lines 126-138: one base symbol of the argument list.
SubscribeBase ==
    /\ sub.pc = "loop"
    /\ LET baseSymbol == sub.args[sub.i] IN
       IF AlreadySubscribed(baseSymbol)
       THEN /\ sub' = SubAdvance(sub)
            /\ UNCHANGED <<providers, subscribedBaseSymbols>>
       ELSE \E out \in subscribeProviders(providers, GetStablecoinsCurrencyPair(baseSymbol)) :
              /\ providers' = out.providers
              /\ IF out.err
                 THEN /\ sub' = [sub EXCEPT !.pc = "ret", !.err = TRUE,
                                            !.calls = @ \cup out.calls]
                      /\ UNCHANGED subscribedBaseSymbols
                 ELSE /\ sub' = SubAdvance([sub EXCEPT !.calls = @ \cup out.calls])
                      /\ subscribedBaseSymbols' = subscribedBaseSymbols \cup {baseSymbol}
    /\ UNCHANGED <<probe, prices, mtx, closed, ctxDone, loop, lastTick, rd, stopPc>>

\* The return, with the deferred Unlock.
SubscribeReturn ==
    /\ sub.pc = "ret"
    /\ sub' = IdleSub
    /\ mtx' = [mtx EXCEPT !.writer = "none"]
    /\ UNCHANGED <<probe, providers, prices, subscribedBaseSymbols, closed, ctxDone, loop,
                   lastTick, rd, stopPc>>

\* ------------------------------------------------- GetPrices and GetPrice
\* Lines 89-94: the call takes the read lock.
GetPricesCall(argLists) ==
    /\ Constructed
    /\ rd.pc = "idle"
    /\ mtx.writer = "none"
    /\ \E args \in argLists :
           rd' = [IdleRd EXCEPT !.pc = "loop", !.fn = "GetPrices", !.args = args, !.i = 1]
    /\ mtx' = [mtx EXCEPT !.readers = @ + 1]
    /\ UNCHANGED <<probe, providers, prices, subscribedBaseSymbols, closed, ctxDone, loop,
                   lastTick, sub, stopPc>>

\* GetPricesLookup with continue for the return of line 99.
GetPricesLookupSkips(r, current) ==
    LET baseSymbol == r.args[r.i]
        next == IF baseSymbol \in DOMAIN current
                THEN [r EXCEPT !.acc = Put(@, baseSymbol, current[baseSymbol])]
                ELSE r
    IN IF r.i = Len(r.args)
       THEN [next EXCEPT !.pc = "ret", !.ret = "map"]
       ELSE [next EXCEPT !.i = @ + 1]

\* Lines 96-104: one base symbol; a missing one ends the call with an error
\* and a nil map.
GetPricesLookup(r, current) ==
    LET baseSymbol == r.args[r.i] IN
    IF baseSymbol \notin DOMAIN current
    THEN [r EXCEPT !.pc = "ret", !.ret = "error", !.errBase = baseSymbol, !.acc = EmptyMap]
    ELSE LET next == [r EXCEPT !.acc = Put(@, baseSymbol, current[baseSymbol])] IN
         IF r.i = Len(r.args)
         THEN [next EXCEPT !.pc = "ret", !.ret = "map"]
         ELSE [next EXCEPT !.i = @ + 1]

GetPricesStep ==
    /\ rd.pc = "loop"
    /\ rd' = GetPricesLookup(rd, prices)
    /\ UNCHANGED <<probe, providers, prices, subscribedBaseSymbols, mtx, closed, ctxDone,
                   loop, lastTick, sub, stopPc>>

\* Lines 108-117.
GetPrice(baseSymbols) ==
    /\ Constructed
    /\ rd.pc = "idle"
    /\ mtx.writer = "none"
    /\ \E baseSymbol \in baseSymbols :
           rd' = IF baseSymbol \in DOMAIN prices
                 THEN [IdleRd EXCEPT !.pc = "ret", !.fn = "GetPrice",
                                     !.args = <<baseSymbol>>, !.i = 1, !.ret = "price",
                                     !.acc = Put(EmptyMap, baseSymbol, prices[baseSymbol])]
                 ELSE [IdleRd EXCEPT !.pc = "ret", !.fn = "GetPrice",
                                     !.args = <<baseSymbol>>, !.i = 1, !.ret = "error",
                                     !.errBase = baseSymbol]
    /\ mtx' = [mtx EXCEPT !.readers = @ + 1]
    /\ UNCHANGED <<probe, providers, prices, subscribedBaseSymbols, closed, ctxDone, loop,
                   lastTick, sub, stopPc>>

\* The return, with the deferred RUnlock.
ReadReturn ==
    /\ rd.pc = "ret"
    /\ rd' = IdleRd
    /\ mtx' = [mtx EXCEPT !.readers = @ - 1]
    /\ UNCHANGED <<probe, providers, prices, subscribedBaseSymbols, closed, ctxDone, loop,
                   lastTick, sub, stopPc>>

\* ------------------------------------------------------- tick / setPrices
\* umeedpfprovider.MapPairsToSlice: the subscribed pairs (their order, the
\* map's iteration order, is drawn where the slice is ranged over).
MapPairsToSlice(subscribedPairs) == Range(subscribedPairs)

SetMax(S) == CHOOSE x \in S : \A y \in S : y <= x

\* Lines 250-267: per base, the sample of the last pair of the slice that
\* the provider answered for.
CollectByBase(order, answers) ==
    LET answered == {i \in DOMAIN order : Symbol(order[i]) \in DOMAIN answers}
        bases == {order[i].Base : i \in answered}
    IN [b \in bases |->
            answers[Symbol(order[SetMax({i \in answered : order[i].Base = b})])]]

\* Lines 236-267: what one provider's goroutine can merge for the pairs it
\* polls, when GetTickerPrices and GetCandlePrices answer for some of them:
\* every [prices, candles], the provider's two slots.
Merged(subscribedPrices, tickerOptions, candleOptions) ==
    LET symbols == {Symbol(cp) : cp \in subscribedPrices} IN
    {[prices |-> CollectByBase(order, tickers),
      candles |-> CollectByBase(order, candles)] :
        order \in Perms(subscribedPrices),
        tickers \in PartialMaps(symbols, tickerOptions),
        candles \in PartialMaps(symbols, candleOptions)}

\* The pairs a provider can come to poll.
ListedPairs ==
    {cp \in UNION {GetStablecoinsCurrencyPair(b) : b \in BaseSymbols} :
        Symbol(cp) \in UNION Listings}

\* Merged, tabulated by the pairs polled.
Answers(tickerOptions, candleOptions) ==
    [subscribedPrices \in SUBSET ListedPairs |->
        Merged(subscribedPrices, tickerOptions, candleOptions)]

AllAnswers == Answers(TickerOptions, CandleOptions)

TickerAnswers == Answers(TickerOptions, {})

NoAnswers == Answers({}, {})

\* TickStart with the timer case taken although ctx.Done() is ready.
TickStartAfterCancel ==
    /\ loop.pc = "select"
    /\ TickDue
    /\ loop' = [pc |-> "collect",
                subs |-> [p \in DOMAIN providers |->
                            MapPairsToSlice(providers[p].subscribedPairs)],
                pending |-> DOMAIN providers,
                failed |-> {},
                providerPrices |-> EmptyMap,
                providerCandles |-> EmptyMap,
                reloaded |-> loop.reloaded]
    /\ lastTick' = NoTick
    /\ UNCHANGED <<probe, providers, prices, subscribedBaseSymbols, mtx, closed, ctxDone,
                   sub, rd, stopPc>>

\* Lines 225-233, with the select case of line 193: the tick timer fired.
\* Once ctx is cancelled the case of line 190 is ready at every select and
\* the timers, made anew by each select, are not.
TickStart ==
    /\ loop.pc = "select"
    /\ ~ctxDone
    /\ TickDue
    /\ loop' = [pc |-> "collect",
                subs |-> [p \in DOMAIN providers |->
                            MapPairsToSlice(providers[p].subscribedPairs)],
                pending |-> DOMAIN providers,
                failed |-> {},
                providerPrices |-> EmptyMap,
                providerCandles |-> EmptyMap,
                reloaded |-> loop.reloaded]
    /\ lastTick' = NoTick
    /\ UNCHANGED <<probe, providers, prices, subscribedBaseSymbols, mtx, closed, ctxDone,
                   sub, rd, stopPc>>

\* Lines 235-271: one provider's goroutine. GetTickerPrices or
\* GetCandlePrices fails and nothing is merged, or both answer for some of
\* the pairs and the answers are merged under the tick's mutex.
\* Line 270 with no pair ranged over: the goroutine returns nil.
TaskDone(l, providerName) == [l EXCEPT !.pending = @ \ {providerName}]

\* Lines 236-244: the goroutine returns the provider's error to the group.
TaskFailed(l, providerName) ==
    [l EXCEPT !.pending = @ \ {providerName}, !.failed = @ \cup {providerName}]

\* Lines 251-256: the provider's slots are made once a pair is ranged over.
TaskMerged(l, providerName, slots) ==
    [l EXCEPT !.pending = @ \ {providerName},
              !.providerPrices = Put(@, providerName, slots.prices),
              !.providerCandles = Put(@, providerName, slots.candles)]

CollectTask(providerName, answers) ==
    /\ loop.pc = "collect"
    /\ providerName \in loop.pending
    /\ loop' \in {TaskFailed(loop, providerName)}
                 \cup IF loop.subs[providerName] = {}
                      THEN {TaskDone(loop, providerName)}
                      ELSE {TaskMerged(loop, providerName, slots) :
                                slots \in answers[loop.subs[providerName]]}
    /\ UNCHANGED <<probe, providers, prices, subscribedBaseSymbols, mtx, closed, ctxDone,
                   lastTick, sub, rd, stopPc>>

\* setPrices with the test of line 291 always true: the candle prices are
\* never used.
setPricesTickersOnly(providerPrices, providerCandles, old, failAt) ==
    LET vwapPrices == ComputeVWAP(filterTickerDeviations(providerPrices)) IN
    IF failAt \in FailPoints
    THEN [err |-> TRUE, prices |-> old, invoked |-> FailPoints]
    ELSE [err |-> FALSE, prices |-> vwapPrices, invoked |-> FailPoints]

\* setPrices without lines 291-312: the candle prices are published even
\* when there is none.
setPricesCandlesOnly(providerPrices, providerCandles, old, failAt) ==
    LET tvwapPrices == ComputeTVWAP(filterCandleDeviations(providerCandles)) IN
    IF failAt \in {"filterCandleDeviations", "ComputeTVWAP"}
    THEN [err |-> TRUE, prices |-> old,
          invoked |-> {"filterCandleDeviations", "ComputeTVWAP"}]
    ELSE [err |-> FALSE, prices |-> tvwapPrices,
          invoked |-> {"filterCandleDeviations", "ComputeTVWAP"}]

\* setPrices assigning o.prices before the calls that can fail.
setPricesClearsFirst(providerPrices, providerCandles, old, failAt) ==
    LET tvwapPrices == ComputeTVWAP(filterCandleDeviations(providerCandles))
        vwapPrices == ComputeVWAP(filterTickerDeviations(providerPrices))
    IN IF failAt \in FailPoints
       THEN [err |-> TRUE, prices |-> EmptyMap, invoked |-> FailPoints]
       ELSE IF DOMAIN tvwapPrices # {}
       THEN [err |-> FALSE, prices |-> tvwapPrices,
             invoked |-> {"filterCandleDeviations", "ComputeTVWAP"}]
       ELSE [err |-> FALSE, prices |-> vwapPrices, invoked |-> FailPoints]

\* setPrices writing the new prices into the map o.prices holds, instead of
\* replacing the map.
setPricesKeepsOld(providerPrices, providerCandles, old, failAt) ==
    LET tvwapPrices == ComputeTVWAP(filterCandleDeviations(providerCandles))
        vwapPrices == ComputeVWAP(filterTickerDeviations(providerPrices))
        new == IF DOMAIN tvwapPrices # {} THEN tvwapPrices ELSE vwapPrices
        merged == [b \in DOMAIN old \cup DOMAIN new |->
                      IF b \in DOMAIN new THEN new[b] ELSE old[b]]
    IN IF failAt \in FailPoints
       THEN [err |-> TRUE, prices |-> old, invoked |-> FailPoints]
       ELSE [err |-> FALSE, prices |-> merged, invoked |-> FailPoints]

\* Lines 278-327: what setPrices does with the aggregates, when the call
\* named failAt (if it is reached) returns an error: [err, prices, invoked].
\* prices is the value of o.prices when setPrices returns.
setPrices(providerPrices, providerCandles, old, failAt) ==
    LET filteredCandles == filterCandleDeviations(providerCandles)
        tvwapPrices == ComputeTVWAP(filteredCandles)
        filteredProviderPrices == filterTickerDeviations(providerPrices)
        vwapPrices == ComputeVWAP(filteredProviderPrices)
    IN IF failAt = "filterCandleDeviations"
       THEN [err |-> TRUE, prices |-> old, invoked |-> {"filterCandleDeviations"}]
       ELSE IF failAt = "ComputeTVWAP"
       THEN [err |-> TRUE, prices |-> old,
             invoked |-> {"filterCandleDeviations", "ComputeTVWAP"}]
       ELSE IF DOMAIN tvwapPrices # {}
       THEN [err |-> FALSE, prices |-> tvwapPrices,
             invoked |-> {"filterCandleDeviations", "ComputeTVWAP"}]
       ELSE IF failAt = "filterTickerDeviations"
       THEN [err |-> TRUE, prices |-> old,
             invoked |-> {"filterCandleDeviations", "ComputeTVWAP",
                          "filterTickerDeviations"}]
       ELSE IF failAt = "ComputeVWAP"
       THEN [err |-> TRUE, prices |-> old, invoked |-> FailPoints]
       ELSE [err |-> FALSE, prices |-> vwapPrices, invoked |-> FailPoints]

\* WaitResult returning the group's error from setPrices.
WaitResultReturnsError(failed, r, old) ==
    IF failed # {} THEN [err |-> TRUE, prices |-> old, invoked |-> {}] ELSE r

\* Lines 274-276: the error g.Wait() returns, that of a failed goroutine, is
\* logged; r, what lines 278-327 do, stands.
WaitResult(failed, r, old) == r

\* SetPrices without g.Wait(): the aggregates are filtered while goroutines
\* still run.
SetPricesNoWait ==
    /\ loop.pc = "collect"
    /\ \E failAt \in FailPoints \cup {"none"} :
           LET r == WaitResult(loop.failed,
                                setPrices(loop.providerPrices, loop.providerCandles,
                                          prices, failAt),
                                prices) IN
           /\ prices' = r.prices
           /\ lastTick' = [ran |-> TRUE, err |-> r.err, invoked |-> r.invoked,
                           waitErr |-> loop.failed # {}]
    /\ loop' = [IdleLoop("select") EXCEPT !.reloaded = loop.reloaded]
    /\ UNCHANGED <<probe, providers, subscribedBaseSymbols, mtx, closed, ctxDone, sub, rd,
                   stopPc>>

\* Lines 274-327 and 442-448, 194-196: g.Wait() has every task back, then
\* setPrices filters, selects and publishes; tick's error is logged.
SetPrices ==
    /\ loop.pc = "collect"
    /\ loop.pending = {}
    /\ \E failAt \in FailPoints \cup {"none"} :
           LET r == WaitResult(loop.failed,
                                setPrices(loop.providerPrices, loop.providerCandles,
                                          prices, failAt),
                                prices) IN
           /\ prices' = r.prices
           /\ lastTick' = [ran |-> TRUE, err |-> r.err, invoked |-> r.invoked,
                           waitErr |-> loop.failed # {}]
    /\ loop' = [IdleLoop("select") EXCEPT !.reloaded = loop.reloaded]
    /\ UNCHANGED <<probe, providers, subscribedBaseSymbols, mtx, closed, ctxDone, sub, rd,
                   stopPc>>

\* ------------------------------------------------------ start() and Stop
\* The context given to New is cancelled.
CtxCancel ==
    /\ Constructed
    /\ ~ctxDone
    /\ ctxDone' = TRUE
    /\ UNCHANGED <<probe, providers, prices, subscribedBaseSymbols, mtx, closed, loop,
                   lastTick, sub, rd, stopPc>>

\* Lines 190-191: the loop closes the closer and goes round again.
CtxDoneCase ==
    /\ loop.pc = "select"
    /\ ctxDone
    /\ closed' = TRUE
    /\ UNCHANGED <<probe, providers, prices, subscribedBaseSymbols, mtx, ctxDone, loop,
                   lastTick, sub, rd, stopPc>>

\* Line 182.
StopClose ==
    /\ Constructed
    /\ stopPc = "idle"
    /\ closed' = TRUE
    /\ stopPc' = "closing"
    /\ UNCHANGED <<probe, providers, prices, subscribedBaseSymbols, mtx, ctxDone, loop,
                   lastTick, sub, rd>>

\* Line 183: Done() is the channel Close() closed.
StopReturn ==
    /\ stopPc = "closing"
    /\ closed
    /\ stopPc' = "returned"
    /\ UNCHANGED <<probe, providers, prices, subscribedBaseSymbols, mtx, closed, ctxDone,
                   loop, lastTick, sub, rd>>

\* ----------------------------------------------------------- the system
\* The oracle with its callers and its providers, every input drawn from
\* the sets given.
System(listingResults, subscribeArgs, readArgs, answers) ==
    \/ LoadAvailablePairs(listingResults)
    \/ SubscribeCall(subscribeArgs)
    \/ SubscribeBase
    \/ SubscribeReturn
    \/ GetPricesCall(readArgs)
    \/ GetPricesStep
    \/ GetPrice(UNION {Range(a) : a \in readArgs})
    \/ ReadReturn
    \/ TickStart
    \/ \E providerName \in DOMAIN providers :
           CollectTask(providerName, answers)
    \/ SetPrices
    \/ CtxCancel
    \/ CtxDoneCase
    \/ StopClose
    \/ StopReturn

Next ==
    System(ListingResults, ArgLists(BaseSymbols), ArgLists(ReadSymbols), AllAnswers)

Spec == Init /\ [][Next]_vars

\* Spec with its inputs narrowed, one part of the oracle at a time.
Loop(answers) ==
    \/ TickStart
    \/ \E providerName \in DOMAIN providers : CollectTask(providerName, answers)
    \/ SetPrices

Subscriber(subscribeArgs) ==
    \/ SubscribeCall(subscribeArgs)
    \/ SubscribeBase
    \/ SubscribeReturn

Reader(readArgs) ==
    \/ GetPricesCall(readArgs)
    \/ GetPricesStep
    \/ GetPrice(UNION {Range(a) : a \in readArgs})
    \/ ReadReturn

Stopper ==
    \/ CtxCancel
    \/ CtxDoneCase
    \/ StopClose
    \/ StopReturn

Listed == {[err |-> FALSE, pairs |-> AtomPairs]}

\* The registry, the loop and Stop: the providers answer no sample.
NextControl ==
    \/ LoadAvailablePairs(ListingResults)
    \/ Subscriber(ArgLists(BaseSymbols))
    \/ Loop(NoAnswers)
    \/ Stopper

SpecControl == Init /\ [][NextControl]_vars

\* The ticks: one base subscribed, every provider listing its pairs.
NextTick ==
    \/ LoadAvailablePairs(Listed)
    \/ Subscriber({<<"atom">>})
    \/ Loop(AllAnswers)

SpecTick == Init /\ [][NextTick]_vars

\* The same, with the context given to New cancelled at any moment.
NextTickCtx ==
    \/ NextTick
    \/ CtxCancel
    \/ CtxDoneCase

\* The readers: tickers only.
NextRead ==
    \/ LoadAvailablePairs(Listed)
    \/ Subscriber({<<"atom">>})
    \/ Loop(TickerAnswers)
    \/ Reader(ArgLists(ReadSymbols))

SpecRead == Init /\ [][NextRead]_vars

\* ------------------------------------------- the deviation filters alone
FilterProviders == {"binance", "kraken", "osmosis"}

FilterBases == {"ATOM", "ETH"}

\* 9.00, 9.05 and 15.00.
FilterValues == {Dec(9), Dec(9) + Precision \div 20, Dec(15)}

\* provider => base => sample, over every choice of providers and bases.
Aggregates(samples) ==
    UNION {[ps -> PartialMaps(FilterBases, samples)] : ps \in SUBSET FilterProviders}

TickerAggregates == Aggregates({[Price |-> v, Volume |-> Dec(1)] : v \in FilterValues})

CandleAggregates ==
    Aggregates({<<StaleCandle>>}
               \cup {<<[Price |-> v, Volume |-> Dec(1), TimeWeight |-> Dec(1)]>> :
                        v \in FilterValues})

InitFilter ==
    /\ providers = [p \in FilterProviders |->
                        [availablePairs |-> {}, subscribedPairs |-> EmptyMap]]
    /\ prices = EmptyMap
    /\ subscribedBaseSymbols = {}
    /\ mtx = [writer |-> "none", readers |-> 0]
    /\ closed = FALSE
    /\ ctxDone = FALSE
    /\ loop = IdleLoop("new")
    /\ lastTick = NoTick
    /\ sub = IdleSub
    /\ rd = IdleRd
    /\ stopPc = "idle"
    /\ \E threshold \in 0..MaxThreshold :
         \/ \E agg \in TickerAggregates :
              probe = [NoProbe EXCEPT !.kind = "tickers", !.threshold = Dec(threshold),
                                      !.in = agg]
         \/ \E agg \in CandleAggregates :
              probe = [NoProbe EXCEPT !.kind = "candles", !.threshold = Dec(threshold),
                                      !.in = agg]

\* filterTickerDeviations on the aggregate, with the threshold drawn.
ProbeTickers ==
    /\ probe.kind = "tickers"
    /\ ~probe.done
    /\ probe' = [probe EXCEPT !.out = FilterTickerDeviationsT(probe.in, probe.threshold),
                              !.done = TRUE]
    /\ UNCHANGED <<providers, prices, subscribedBaseSymbols, mtx, closed, ctxDone,
                   loop, lastTick, sub, rd, stopPc>>

\* filterCandleDeviations on the aggregate, with the threshold drawn.
ProbeCandles ==
    /\ probe.kind = "candles"
    /\ ~probe.done
    /\ probe' = [probe EXCEPT !.out = FilterCandleDeviationsT(probe.in, probe.threshold),
                              !.done = TRUE]
    /\ UNCHANGED <<providers, prices, subscribedBaseSymbols, mtx, closed, ctxDone,
                   loop, lastTick, sub, rd, stopPc>>

NextFilter == ProbeTickers \/ ProbeCandles

SpecFilter == InitFilter /\ [][NextFilter]_vars

\* --------------------------------------- loadAvailablePairs, as a refresh
\* What GetAvailablePairs may return at a refresh: ATOMUSDT may have been
\* delisted.
RefreshResults ==
    ListingResults \cup {[err |-> FALSE, pairs |-> {<<"ATOM", "USD">>}]}

\* Lines 198-199 and 205-217: loadAvailablePairs called as the refresh case
\* calls it, on the registry as New and SubscribeSymbols have made it. The
\* listings and the registry before and after are kept.
ProbeRefresh(refreshResults) ==
    /\ loop.pc = "select"
    /\ \E results \in [DOMAIN providers -> refreshResults] :
          /\ providers' = loadAvailablePairs(providers, results)
          /\ probe' = [kind |-> "refresh", threshold |-> 0,
                       in |-> [results |-> results, before |-> providers],
                       out |-> loadAvailablePairs(providers, results),
                       done |-> TRUE]
    /\ UNCHANGED <<prices, subscribedBaseSymbols, mtx, closed, ctxDone, loop, lastTick,
                   sub, rd, stopPc>>

NextRefresh ==
    \/ LoadAvailablePairs(ListingResults)
    \/ Subscriber({<<"atom">>})
    \/ ProbeRefresh(RefreshResults)

SpecRefresh == Init /\ [][NextRefresh]_vars

\* ================================================================ claims
\* A step of the caller of GetPrices / GetPrice.
ReadStep == rd' # rd

\* The step in which setPrices runs and returns.
SetPricesStep == loop.pc = "collect" /\ loop'.pc = "select"

\* The step in which setPrices assigns o.prices.
Publishes == SetPricesStep /\ ~lastTick'.err

\* The step in which the loop starts a tick.
TickStartStep == loop.pc = "select" /\ loop'.pc = "collect"

\* C1: GetPrices returns a map with a price for every requested base, or an
\* error naming a base missing from o.prices and no map; and no step of the
\* call changes the prices, the subscribed bases or the providers' state.
C1_GetPricesAllOrError ==
    [][ReadStep =>
        /\ UNCHANGED <<prices, subscribedBaseSymbols, providers>>
        /\ (rd'.pc = "ret" /\ rd'.fn = "GetPrices") =>
              \/ /\ rd'.ret = "map"
                 /\ DOMAIN rd'.acc = Range(rd'.args)
              \/ /\ rd'.ret = "error"
                 /\ rd'.acc = EmptyMap
                 /\ rd'.errBase \in Range(rd'.args)
                 /\ rd'.errBase \notin DOMAIN prices]_vars

\* GetPrices fails on its second base symbol, after it found the first.
C1_Witness ==
    /\ rd.pc = "ret" /\ rd.fn = "GetPrices"
    /\ rd.ret = "error" /\ rd.i = 2
    /\ rd.args[1] \in DOMAIN prices

\* C2: once Stop() has returned, the loop starts no further tick.
C2_NoTickAfterStop == [][stopPc = "returned" => ~TickStartStep]_vars

\* C3: o.prices is not assigned while a reader holds the read lock or
\* SubscribeSymbols holds the write lock.
C3_PublishExcludesLockHolders ==
    [][Publishes => (mtx.readers = 0 /\ mtx.writer = "none")]_vars

\* C4: when ComputeTVWAP over the filtered candles returns a price, o.prices
\* becomes exactly its result, and neither filterTickerDeviations nor
\* ComputeVWAP is called in that tick.
C4_CandlePathOnly ==
    [][(SetPricesStep /\ ~lastTick'.err) =>
        LET tvwapPrices == ComputeTVWAP(filterCandleDeviations(loop.providerCandles))
        IN DOMAIN tvwapPrices # {} =>
              /\ prices' = tvwapPrices
              /\ lastTick'.invoked \cap {"filterTickerDeviations", "ComputeVWAP"} = {}]_vars

\* A tick has published candle prices without the ticker calls.
C4_Witness ==
    /\ lastTick.ran /\ ~lastTick.err
    /\ "ComputeVWAP" \notin lastTick.invoked
    /\ DOMAIN prices # {}

\* C5: when ComputeTVWAP over the filtered candles returns no price and no
\* call fails, o.prices becomes exactly ComputeVWAP of the tickers that
\* filterTickerDeviations keeps.
C5_TickerFallback ==
    [][(SetPricesStep /\ ~lastTick'.err) =>
        LET tvwapPrices == ComputeTVWAP(filterCandleDeviations(loop.providerCandles))
        IN DOMAIN tvwapPrices = {} =>
              prices' = ComputeVWAP(filterTickerDeviations(loop.providerPrices))]_vars

\* A tick has published ticker prices.
C5_Witness ==
    /\ lastTick.ran /\ ~lastTick.err
    /\ "ComputeVWAP" \in lastTick.invoked
    /\ DOMAIN prices # {}

\* The scalar the filter takes from each sample: the ticker's price, or the
\* TVWAP of the provider's candles for the base.
ProbeValues ==
    IF probe.kind = "tickers" THEN TickerPriceMap(probe.in) ELSE ProviderTvwaps(probe.in)

\* The samples of an aggregate.
SamplesOf(agg) == {<<p, b>> \in FilterProviders \X FilterBases :
                      p \in DOMAIN agg /\ b \in DOMAIN agg[p]}

\* A standard deviation exists for the base and the value is further than
\* threshold deviations from the mean.
Outlier(value, b, stats) ==
    /\ b \in DOMAIN stats.deviations
    /\ Abs(value - stats.means[b]) > DecMul(stats.deviations[b], probe.threshold)

\* Every provider with a value for the base has the same value.
IdenticalValues(values, b) ==
    \A s, t \in SamplesOf(values) :
        (s[2] = b /\ t[2] = b) => values[s[1]][b] = values[t[1]][b]

\* C6: each filter drops a sample exactly when a standard deviation exists
\* for its base and its value is further than T deviations from the mean (so
\* a sample whose base has no standard deviation is kept).
C6_DroppedIffOutlier ==
    probe.done =>
        LET values == ProbeValues
            stats == StandardDeviation(values)
            given == SamplesOf(probe.in)
            kept == SamplesOf(probe.out)
            valued == SamplesOf(values)
        IN \A s \in given :
              s \notin kept <=> (s \in valued /\ Outlier(values[s[1]][s[2]], s[2], stats))

\* C6 (amended): a sample that has a value is dropped exactly when it is an
\* outlier, hence kept when its base has no standard deviation; a candle
\* sample with no TVWAP is always left out; samples with identical values are
\* all kept; and the samples returned are samples given.
C6_ValuedDroppedIffOutlier ==
    probe.done =>
        LET values == ProbeValues
            stats == StandardDeviation(values)
            given == SamplesOf(probe.in)
            kept == SamplesOf(probe.out)
            valued == SamplesOf(values)
        IN /\ kept \subseteq given
           /\ \A s \in kept : probe.out[s[1]][s[2]] = probe.in[s[1]][s[2]]
           /\ \A s \in given \ valued : s \notin kept
           /\ \A s \in given \cap valued :
                 /\ s \notin kept <=> Outlier(values[s[1]][s[2]], s[2], stats)
                 /\ s[2] \notin DOMAIN stats.deviations => s \in kept
                 /\ IdenticalValues(values, s[2]) => s \in kept

\* A filter with a positive threshold has dropped a sample that has a value
\* and kept another sample of the same base.
C6_Witness ==
    /\ probe.done
    /\ probe.threshold > 0
    /\ \E s \in SamplesOf(probe.in) \cap SamplesOf(ProbeValues) :
          /\ s \notin SamplesOf(probe.out)
          /\ \E t \in SamplesOf(probe.out) : t[2] = s[2]

\* SubscribeSymbols was called with base symbols that were all subscribed.
Resubscribing == sub.pc # "idle" /\ sub.args # <<>> /\ Range(sub.args) \subseteq sub.pre.bases

\* C7: a SubscribeSymbols call for base symbols already subscribed makes no
\* SubscribeCurrencyPairs call and leaves the providers' pairs and the
\* subscribed base symbols as they were.
C7_ResubscribeNoOp ==
    Resubscribing =>
        /\ sub.calls = {}
        /\ ~sub.err
        /\ providers = sub.pre.providers
        /\ subscribedBaseSymbols = sub.pre.bases

\* A second SubscribeSymbols call for a base whose pairs a provider holds is
\* about to return.
C7_Witness ==
    /\ Resubscribing
    /\ sub.pc = "ret"
    /\ \E p \in DOMAIN providers : DOMAIN providers[p].subscribedPairs # {}

\* C8: when SubscribeSymbols returns an error, the providers' subscribed pairs
\* and the subscribed base symbols are what they were before the call.
C8_FailedSubscribeLeavesRegistry ==
    (sub.pc = "ret" /\ sub.err) =>
        /\ \A p \in DOMAIN providers :
              providers[p].subscribedPairs = sub.pre.providers[p].subscribedPairs
        /\ subscribedBaseSymbols = sub.pre.bases

\* The loop can start ticks for as long as it is at its select statement.
FairSpecTick == Init /\ [][NextTickCtx]_vars /\ WF_vars(TickStart)

\* C9: a tick that returns an error leaves o.prices as it was and the loop
\* at its select statement, and unless the context is cancelled the loop
\* starts another tick.
C9_ErrorTickKeepsPrices ==
    /\ [][(SetPricesStep /\ lastTick'.err) =>
            (prices' = prices /\ loop'.pc = "select")]_vars
    /\ (lastTick.err /\ ~ctxDone) ~> (loop.pc = "collect" \/ ctxDone)

\* A tick has returned an error after an earlier tick published prices.
C9_Witness == lastTick.ran /\ lastTick.err /\ DOMAIN prices # {}

\* C10: a tick in which no provider contributes a ticker or a candle leaves
\* every price published before it in place.
C10_NoDataKeepsPrices ==
    [][(SetPricesStep /\ BasesOf(loop.providerPrices) = {}
                      /\ BasesOf(loop.providerCandles) = {}) =>
        \A b \in DOMAIN prices : b \in DOMAIN prices' /\ prices'[b] = prices[b]]_vars

\* The bases of which some provider's candles hold one inside the window.
FreshCandleBases(candles) ==
    {b \in BasesOf(candles) :
        \E p \in ProvidersWith(candles, b) :
            \E i \in DOMAIN candles[p][b] : candles[p][b][i].TimeWeight > 0}

\* The step in which setPrices returns in a tick where a provider's fetch
\* failed.
FailedFetchStep == SetPricesStep /\ loop.failed # {}

\* C11: in a tick where a provider's fetch fails, setPrices returns no error
\* (but one of a statistics call) and o.prices holds every base of which
\* another provider returned a ticker or candles.
C11_FailedFetchOthersPriced ==
    [][FailedFetchStep =>
        /\ lastTick'.err => lastTick'.invoked # {}
        /\ ~lastTick'.err =>
              (BasesOf(loop.providerPrices) \cup BasesOf(loop.providerCandles))
                  \subseteq DOMAIN prices']_vars

\* C11 (amended): in a tick where a provider's fetch fails, that provider
\* holds no slot of the aggregates, setPrices returns no error (but one of a
\* statistics call), and o.prices holds every base of which another provider
\* returned a candle inside the window or, when there is no such base, every
\* base of which another provider returned a ticker.
C11_FailedFetchOthersSelected ==
    [][FailedFetchStep =>
        /\ loop.failed \cap (DOMAIN loop.providerPrices \cup DOMAIN loop.providerCandles) = {}
        /\ lastTick'.err => lastTick'.invoked # {}
        /\ ~lastTick'.err =>
              LET fresh == FreshCandleBases(loop.providerCandles) IN
              IF fresh # {}
              THEN fresh \subseteq DOMAIN prices'
              ELSE BasesOf(loop.providerPrices) \subseteq DOMAIN prices']_vars

\* A tick in which a provider's fetch failed has published a price.
C11_Witness ==
    /\ lastTick.ran /\ lastTick.waitErr /\ ~lastTick.err
    /\ "ATOM" \in DOMAIN prices

\* filterTickerDeviations was given the tickers of three providers for ATOM
\* at 9.00, 9.05 and 15.00, with equal volume.
ThreeTickers ==
    /\ probe.kind = "tickers"
    /\ probe.threshold = Dec(deviationThreshold)
    /\ DOMAIN probe.in = FilterProviders
    /\ \A p \in FilterProviders : "ATOM" \in DOMAIN probe.in[p]
    /\ {probe.in[p]["ATOM"].Price : p \in FilterProviders} = FilterValues

\* The ATOM tickers the filter returned.
KeptTickers == {p \in DOMAIN probe.out : "ATOM" \in DOMAIN probe.out[p]}

\* C12: of the tickers 9.00, 9.05 and 15.00 the filter drops the 15.00 and
\* keeps the other two, and the price is that of those two.
C12_OutlierRejected ==
    (probe.done /\ ThreeTickers) =>
        /\ KeptTickers = {p \in FilterProviders : probe.in[p]["ATOM"].Price # Dec(15)}
        /\ ComputeVWAP(probe.out)["ATOM"] < Dec(10)

\* C12 (amended): of the tickers 9.00, 9.05 and 15.00 the filter keeps all
\* three (15.00 lies within two deviations of the mean), and the price is
\* that of the three, between 11.00 and 11.10.
C12_AllThreeKept ==
    (probe.done /\ ThreeTickers) =>
        /\ KeptTickers = FilterProviders
        /\ \A p \in FilterProviders : probe.out[p]["ATOM"] = probe.in[p]["ATOM"]
        /\ ComputeVWAP(probe.out)["ATOM"] > Dec(11)
        /\ ComputeVWAP(probe.out)["ATOM"] < Dec(11) + Precision \div 10

\* The filter has run on the three tickers.
C12_Witness == probe.done /\ ThreeTickers

\* The loop with every step it can take eventually taken: the timers fire,
\* the providers answer and setPrices returns.
FairSpecLoop ==
    /\ Init
    /\ [][NextTick]_vars
    /\ WF_vars(LoadAvailablePairs(Listed))
    /\ WF_vars(TickStart)
    /\ WF_vars(\E providerName \in ProviderNames : CollectTask(providerName, AllAnswers))
    /\ WF_vars(SetPrices)

\* C13: the loop, never cancelled, eventually takes the refresh branch of
\* its select and runs loadAvailablePairs again.
C13_RefreshRecurs == <>loop.reloaded

\* C14: every pair a tick passes to a provider's GetTickerPrices and
\* GetCandlePrices is one of the provider's subscribed pairs and one of its
\* available pairs.
C14_PolledSubscribedAndAvailable ==
    loop.pc = "collect" =>
        \A p \in DOMAIN loop.subs :
            \A cp \in loop.subs[p] :
                /\ Symbol(cp) \in DOMAIN providers[p].subscribedPairs
                /\ providers[p].subscribedPairs[Symbol(cp)] = cp
                /\ Symbol(cp) \in providers[p].availablePairs

\* A tick is about to poll a provider for a pair, while another provider
\* lists nothing.
C14_Witness ==
    /\ loop.pc = "collect"
    /\ \E p \in loop.pending : loop.subs[p] # {}
    /\ \E p \in DOMAIN providers : providers[p].availablePairs = {}

\* C15: once the context is cancelled the loop starts no tick.
C15_NoTickAfterCancel == [][ctxDone => ~TickStartStep]_vars

\* The context is cancelled, a tick has finished and the loop has taken the
\* ctx.Done() case.
C15_Witness ==
    /\ ctxDone /\ closed /\ stopPc = "idle"
    /\ lastTick.ran /\ loop.pc = "select"

\* C16: every base of the prices a tick publishes has, in that tick, a
\* sample the deviation filter kept: candles when the prices are the TVWAPs,
\* a ticker when they are the VWAPs.
C16_PublishedBasesSurvived ==
    [][Publishes =>
        LET filteredCandles == filterCandleDeviations(loop.providerCandles)
            filteredProviderPrices == filterTickerDeviations(loop.providerPrices)
        IN IF DOMAIN ComputeTVWAP(filteredCandles) # {}
           THEN DOMAIN prices' \subseteq BasesOf(filteredCandles)
           ELSE DOMAIN prices' \subseteq BasesOf(filteredProviderPrices)]_vars

\* A tick in which every provider answered has published a price of ATOM.
C16_Witness ==
    /\ lastTick.ran /\ ~lastTick.err /\ ~lastTick.waitErr
    /\ DOMAIN prices = {"ATOM"}

\* A goroutine of the tick merges its answers or returns.
TaskStep == loop'.pending # loop.pending /\ loop.pc = "collect" /\ loop'.pc = "collect"

\* C17: setPrices filters and publishes only when every goroutine of the
\* tick has returned; a tick starts only when the one before has returned,
\* with none of its goroutines left; and the aggregates and o.prices are
\* written by the tick in flight only.
C17_TicksDoNotOverlap ==
    [][/\ SetPricesStep => loop.pending = {}
       /\ TickStartStep => (loop.pending = {} /\ loop'.pending = DOMAIN providers)
       /\ prices' # prices => SetPricesStep
       /\ (loop'.providerPrices # loop.providerPrices
              \/ loop'.providerCandles # loop.providerCandles)
             => (TaskStep \/ SetPricesStep)
       /\ loop'.pc = "select" => loop'.pending = {}]_vars

\* All goroutines of a tick have returned, one with samples, after an
\* earlier tick published a price.
C17_Witness ==
    /\ loop.pc = "collect" /\ loop.pending = {}
    /\ DOMAIN loop.providerPrices # {}
    /\ DOMAIN prices # {}

\* A listing that failed or came back empty.
NoListing(result) == result.err \/ result.pairs = {}

\* C18: a refresh leaves a provider whose listing failed or came back empty
\* with the available pairs it had, gives every other provider its new
\* listing, keeps every provider in the registry and changes no provider's
\* subscribed pairs.
C18_RefreshFrame ==
    (probe.kind = "refresh" /\ probe.done) =>
        /\ DOMAIN probe.out = DOMAIN probe.in.before
        /\ \A p \in DOMAIN probe.in.before :
              /\ probe.out[p].subscribedPairs = probe.in.before[p].subscribedPairs
              /\ probe.out[p].availablePairs =
                    IF NoListing(probe.in.results[p])
                    THEN probe.in.before[p].availablePairs
                    ELSE probe.in.results[p].pairs

\* A refresh in which the listing of a provider with available and
\* subscribed pairs failed and another provider's available pairs changed.
C18_Witness ==
    /\ probe.kind = "refresh" /\ probe.done
    /\ \E p, q \in DOMAIN probe.in.before :
          /\ probe.in.results[p].err
          /\ probe.in.before[p].availablePairs # {}
          /\ DOMAIN probe.in.before[p].subscribedPairs # {}
          /\ ~NoListing(probe.in.results[q])
          /\ probe.out[q].availablePairs # probe.in.before[q].availablePairs

\* A step of the loop that reads the providers' subscribed pairs (line 233)
\* or assigns their available pairs (line 216).
RegistryAccessByLoop == TickStartStep \/ (providers' # providers /\ sub' = sub)

\* C19: the loop reads the subscribed pairs and assigns the available pairs
\* only while no SubscribeSymbols call holds the write lock.
C19_RegistryAccessExcludesSubscribe ==
    [][RegistryAccessByLoop => mtx.writer = "none"]_vars

\* Every provider holds, for every base symbol of bases, each of the base's
\* candidate pairs that it lists.
SubscribedEverywhere(provs, bases) ==
    \A b \in bases : \A p \in DOMAIN provs : \A cp \in GetStablecoinsCurrencyPair(b) :
        Symbol(cp) \in provs[p].availablePairs
            => Symbol(cp) \in DOMAIN provs[p].subscribedPairs

\* C20: after every step, each provider holds the listed candidate pairs of
\* every subscribed base symbol; and no step takes a base symbol out of
\* subscribedBaseSymbols or a pair out of a provider's subscribedPairs.
C20_SubscribedBasesComplete ==
    [][/\ SubscribedEverywhere(providers', subscribedBaseSymbols')
       /\ subscribedBaseSymbols \subseteq subscribedBaseSymbols'
       /\ \A p \in DOMAIN providers :
             \A sym \in DOMAIN providers[p].subscribedPairs :
                /\ sym \in DOMAIN providers'[p].subscribedPairs
                /\ providers'[p].subscribedPairs[sym] = providers[p].subscribedPairs[sym]]_vars

\* Both base symbols are subscribed: one provider holds the pairs of ATOM,
\* another lists none.
C20_Witness ==
    /\ subscribedBaseSymbols = BaseSymbols
    /\ \E p \in DOMAIN providers : DOMAIN providers[p].subscribedPairs = AtomPairs
    /\ \E p \in DOMAIN providers : providers[p].availablePairs = {}

====
